---------------------------- MODULE Spec2Model ----------------------------
(***************************************************************************)
(* Model of the tile loading / export pipeline of Twaal/data_collection:   *)
(*   automated_loading_batch.py  (the batch loader)                        *)
(*   export_segmentations.py     (the exporter)                            *)
(*                                                                         *)
(* Strings are sequences of one-character strings, so that startswith,     *)
(* slicing, strip, splitlines, split and Path.stem are computed as Python  *)
(* computes them.  Arrays are records [h, w, c, px] (c = 0: a 2-D array,   *)
(* c > 0: an (H, W, C) array whose elements are tuples of C numbers).      *)
(***************************************************************************)
EXTENDS Integers, Sequences, FiniteSets, TLC

VARIABLES
    fs,         \* the data tree under --root: [rootIsDir, dirs, files]
    orig,       \* the files under --root before any run (never changes)
    lpc,        \* batch loader: position in main
    largs,      \* batch loader: parsed arguments
    lqueue,     \* batch loader: case_dirs still to be processed
    scene,      \* batch loader: the MRML scene of its Slicer process
    llog,       \* batch loader: locals of every finished case iteration
    lnodes,     \* batch loader: number of nodes ever added to its scene
    sceneFile,  \* the persisted scene (.mrb), or None
    outDirMade, \* output_scene.parent was created
    edits,      \* number of interactive edits the user still makes
    xpc,        \* exporter: position in main
    xargs,      \* exporter: parsed arguments
    xqueue,     \* exporter: seg_nodes still to be processed
    xscene,     \* exporter: the MRML scene of its Slicer process
    xlog,       \* exporter: locals of every finished seg_node iteration
    xnodes,     \* exporter: number of nodes ever added to its scene
    written,    \* exporter: the (output_path, array) pairs given to save_binary_png
    fin,        \* pure-function harness: the input
    fout,       \* pure-function harness: the result
    fpc         \* pure-function harness: position

vars == <<fs, orig, lpc, largs, lqueue, scene, llog, lnodes, sceneFile,
          outDirMade, edits, xpc, xargs, xqueue, xscene, xlog, xnodes,
          written, fin, fout, fpc>>

pipeVars == <<fs, orig, lpc, largs, lqueue, scene, llog, lnodes, sceneFile,
              outDirMade, edits, xpc, xargs, xqueue, xscene, xlog, xnodes,
              written>>

fnVars == <<fin, fout, fpc>>

\* Python's None, where a record (an array, a scene, a result) is expected.
None == [none |-> TRUE]

-----------------------------------------------------------------------------
(* Bounds of the model.                                                    *)

MaxTiles == 2       \* HE tile files per case folder
MaxDim == 2         \* height and width of a tile, in pixels
MaxLimit == 1       \* largest --max-tiles-per-case tried
MaxEdits == 1       \* interactive edits between load and export
MaxIdLen == 2       \* characters of a tile ID in the mapping round trip
MaxStack == 2       \* arrays given to stack_tile_arrays
MaxMaskW == 2       \* width of a mask given to binarize_mask_array

-----------------------------------------------------------------------------
(* Python str operations on sequences of characters.                       *)

Max(a, b) == IF a >= b THEN a ELSE b
Min(a, b) == IF a <= b THEN a ELSE b

LF == "\n"

\* The characters of the model in code-point order (ASCII).
CharOrder ==
    << LF, " ", ".", "0", "1", "2", "3", "4", "5", "6", "7", "8", "9", ":",
       "A", "B", "E", "H", "S", "_",
       "a", "c", "d", "e", "g", "i", "l", "m", "n", "o", "p", "s", "t" >>

Ord(ch) == CHOOSE i \in DOMAIN CharOrder : CharOrder[i] = ch

\* str < str: lexicographic by code point.
RECURSIVE StrLess(_, _)
StrLess(a, b) ==
    IF b = <<>> THEN FALSE
    ELSE IF a = <<>> THEN TRUE
    ELSE IF Head(a) = Head(b) THEN StrLess(Tail(a), Tail(b))
    ELSE Ord(Head(a)) < Ord(Head(b))

\* sorted(iterable of names): ascending, as a sequence.
RECURSIVE SortedNames(_)
SortedNames(S) ==
    IF S = {} THEN <<>>
    ELSE LET m == CHOOSE x \in S : \A y \in S \ {x} : StrLess(x, y)
         IN  <<m>> \o SortedNames(S \ {m})

StartsWith(s, p) == Len(s) >= Len(p) /\ SubSeq(s, 1, Len(p)) = p
EndsWith(s, p) == Len(s) >= Len(p) /\ SubSeq(s, Len(s) - Len(p) + 1, Len(s)) = p

\* s[n:]
DropPrefix(s, n) == SubSeq(s, Min(n, Len(s)) + 1, Len(s))

\* s[:-n] for n > 0
DropSuffix(s, n) == SubSeq(s, 1, Max(0, Len(s) - n))

IsSpace(ch) == ch \in {" ", LF}

RECURSIVE LStrip(_)
LStrip(s) == IF s # <<>> /\ IsSpace(Head(s)) THEN LStrip(Tail(s)) ELSE s

RECURSIVE RStrip(_)
RStrip(s) ==
    IF s # <<>> /\ IsSpace(s[Len(s)]) THEN RStrip(SubSeq(s, 1, Len(s) - 1)) ELSE s

\* str.strip()
Strip(s) == RStrip(LStrip(s))

\* str.splitlines(): the lines without their line breaks; no final empty line.
RECURSIVE SplitLines(_)
SplitLines(s) ==
    IF s = <<>> THEN <<>>
    ELSE IF \E i \in 1..Len(s) : s[i] = LF
         THEN LET i == CHOOSE j \in 1..Len(s) :
                          s[j] = LF /\ \A k \in 1..(j - 1) : s[k] # LF
              IN  <<SubSeq(s, 1, i - 1)>> \o SplitLines(SubSeq(s, i + 1, Len(s)))
         ELSE <<s>>

\* str.find(sep): the first position (1-based) where sep occurs, 0 when absent.
Find(s, sep) ==
    LET hits == {i \in 1..(Len(s) - Len(sep) + 1) : SubSeq(s, i, i + Len(sep) - 1) = sep}
    IN  IF hits = {} THEN 0 ELSE CHOOSE i \in hits : \A j \in hits : i <= j

\* str.split(sep, 1)
SplitOnce(s, sep) ==
    LET i == Find(s, sep)
    IN  IF i = 0 THEN <<s>>
        ELSE <<SubSeq(s, 1, i - 1), SubSeq(s, i + Len(sep), Len(s))>>

\* str.rfind("."): the last position (1-based) of a dot, 0 when absent.
RFindDot(s) ==
    LET hits == {i \in 1..Len(s) : s[i] = "."}
    IN  IF hits = {} THEN 0 ELSE CHOOSE i \in hits : \A j \in hits : j <= i

\* pathlib.PurePath.stem: the name without its last suffix.
PathStem(name) ==
    LET i == RFindDot(name)
    IN  IF 1 < i /\ i < Len(name) THEN SubSeq(name, 1, i - 1) ELSE name

Digits == <<"0", "1", "2", "3", "4", "5", "6", "7", "8", "9">>

\* f"{i}" for an integer i >= 0
RECURSIVE IntToStr(_)
IntToStr(i) ==
    IF i < 10 THEN <<Digits[i + 1]>>
    ELSE IntToStr(i \div 10) \o <<Digits[(i % 10) + 1]>>

\* "\n".join(lines)
RECURSIVE JoinLines(_)
JoinLines(lines) ==
    IF lines = <<>> THEN <<>>
    ELSE IF Len(lines) = 1 THEN lines[1]
    ELSE lines[1] \o <<LF>> \o JoinLines(Tail(lines))

-----------------------------------------------------------------------------
(* numpy arrays.  A 2-D / (H, W, C) array is [h, w, c, u8, px]: px maps    *)
(* <<row, column>> (1-based) to a number (c = 0) or to a tuple of c        *)
(* numbers; u8 says that the dtype is uint8.  A stacked array has the      *)
(* extra first axis n and px over <<slice, row, column>>.                  *)

Zero(c) == IF c = 0 THEN 0 ELSE [k \in 1..c |-> 0]

\* arr.shape of a 2-D / (H, W, C) array
ShapeOf(a) == IF a.c = 0 THEN <<a.h, a.w>> ELSE <<a.h, a.w, a.c>>

\* arr.shape of a stacked (Z, H, W[, C]) array
VolShapeOf(v) == IF v.c = 0 THEN <<v.n, v.h, v.w>> ELSE <<v.n, v.h, v.w, v.c>>

\* np.zeros((h, w), dtype=np.uint8)
ZerosU8(h, w) ==
    [h |-> h, w |-> w, c |-> 0, u8 |-> TRUE,
     px |-> [p \in (1..h) \X (1..w) |-> 0]]

\* max over a tuple of numbers
TupleMax(t) == CHOOSE m \in {t[k] : k \in DOMAIN t} : \A k \in DOMAIN t : t[k] <= m

\* The value binarize_mask_array compares, per pixel: the array itself, the
\* alpha channel of an RGBA mask with both transparent and opaque pixels, or
\* the maximum over the (colour) channels.
Collapsed(mask_array) ==
    IF mask_array.c = 0 THEN mask_array.px
    ELSE IF mask_array.c = 4
         THEN LET alpha == [p \in DOMAIN mask_array.px |-> mask_array.px[p][4]]
              IN  IF (\E p \in DOMAIN alpha : alpha[p] = 0)
                     /\ (\E p \in DOMAIN alpha : alpha[p] > 0)
                  THEN alpha
                  ELSE [p \in DOMAIN mask_array.px |->
                           TupleMax(SubSeq(mask_array.px[p], 1, 3))]
         ELSE [p \in DOMAIN mask_array.px |-> TupleMax(mask_array.px[p])]

\* ndarray.astype(np.uint8) of one integer: wraps modulo 2^8
AsUint8(v) == v % 256

\* collapsed == 255, per element
IsClassPixel(v) == v = 255

binarize_mask_array(mask_array) ==
    LET collapsed == Collapsed(mask_array)
        cast == IF mask_array.u8 THEN collapsed
                ELSE [p \in DOMAIN collapsed |-> AsUint8(collapsed[p])]
    IN  [h |-> mask_array.h, w |-> mask_array.w, c |-> 0, u8 |-> TRUE,
         px |-> [p \in DOMAIN cast |-> IF IsClassPixel(cast[p]) THEN 1 ELSE 0]]

\* A mutant of pad_array_to_shape: pads at the top and left.
pad_array_top_left(arr, target_h, target_w) ==
    LET pad_h == Max(0, target_h - arr.h)
        pad_w == Max(0, target_w - arr.w)
    IN  [h |-> arr.h + pad_h, w |-> arr.w + pad_w, c |-> arr.c, u8 |-> arr.u8,
         px |-> [p \in (1..(arr.h + pad_h)) \X (1..(arr.w + pad_w)) |->
                    IF p[1] > pad_h /\ p[2] > pad_w
                    THEN arr.px[<<p[1] - pad_h, p[2] - pad_w>>]
                    ELSE Zero(arr.c)]]

pad_array_to_shape(arr, target_h, target_w) ==
    LET pad_h == Max(0, target_h - arr.h)
        pad_w == Max(0, target_w - arr.w)
    IN  IF pad_h = 0 /\ pad_w = 0 THEN arr
        ELSE [h |-> arr.h + pad_h, w |-> arr.w + pad_w, c |-> arr.c, u8 |-> arr.u8,
              px |-> [p \in (1..(arr.h + pad_h)) \X (1..(arr.w + pad_w)) |->
                         IF p[1] <= arr.h /\ p[2] <= arr.w
                         THEN arr.px[p]
                         ELSE Zero(arr.c)]]

SeqMax(s) == CHOOSE m \in {s[k] : k \in DOMAIN s} : \A k \in DOMAIN s : s[k] <= m

ValueError == [error |-> "ValueError"]

\* np.stack(padded, axis=0): the arrays must all have the same shape.
NpStack(padded) ==
    IF \E j, k \in DOMAIN padded : ShapeOf(padded[j]) # ShapeOf(padded[k])
    THEN ValueError
    ELSE [n |-> Len(padded), h |-> padded[1].h, w |-> padded[1].w,
          c |-> padded[1].c, u8 |-> \A k \in DOMAIN padded : padded[k].u8,
          px |-> [p \in (1..Len(padded)) \X (1..padded[1].h) \X (1..padded[1].w) |->
                     padded[p[1]].px[<<p[2], p[3]>>]]]

stack_tile_arrays(arrays) ==
    IF arrays = <<>> THEN None
    ELSE LET max_h == SeqMax([k \in DOMAIN arrays |-> arrays[k].h])
             max_w == SeqMax([k \in DOMAIN arrays |-> arrays[k].w])
             padded == [k \in DOMAIN arrays |->
                           pad_array_to_shape(arrays[k], max_h, max_w)]
         IN  NpStack(padded)

\* np.any(stacked)
NpAny(v) == \E p \in DOMAIN v.px : v.px[p] # Zero(v.c)

\* mask_3d[slice_idx] (slice_idx 0-based)
VolSlice(v, slice_idx) ==
    [h |-> v.h, w |-> v.w, c |-> v.c, u8 |-> v.u8,
     px |-> [p \in (1..v.h) \X (1..v.w) |-> v.px[<<slice_idx + 1, p[1], p[2]>>]]]

\* arr[:orig_h, :orig_w]
Crop(arr, orig_h, orig_w) ==
    LET hh == Min(arr.h, Max(0, orig_h))
        ww == Min(arr.w, Max(0, orig_w))
    IN  [h |-> hh, w |-> ww, c |-> arr.c, u8 |-> arr.u8,
         px |-> [p \in (1..hh) \X (1..ww) |-> arr.px[p]]]

\* ((slice_mask > 0).astype(np.uint8)) * 255
ToBinary255(arr) ==
    [h |-> arr.h, w |-> arr.w, c |-> 0, u8 |-> TRUE,
     px |-> [p \in DOMAIN arr.px |-> IF arr.px[p] > 0 THEN 255 ELSE 0]]

-----------------------------------------------------------------------------
(* The slice-to-tile mapping kept in the volume node's description.        *)

sSlice == <<"S", "l", "i", "c", "e", " ">>
sColonSpace == <<":", " ">>

\* "\n".join(f"Slice {i}: {name}" for i, name in enumerate(tile_names))
build_mapping(tile_names) ==
    JoinLines([k \in DOMAIN tile_names |->
                  sSlice \o IntToStr(k - 1) \o sColonSpace \o tile_names[k]])

\* One iteration of parse_tile_mapping's loop on a stripped line: what it
\* appends to tile_names (nothing, or one name).
mapping_entry(line) ==
    IF ~StartsWith(line, sSlice) THEN <<>>
    ELSE LET parts == SplitOnce(line, sColonSpace)
         IN  IF Len(parts) = 2 THEN <<Strip(parts[2])>> ELSE <<>>

RECURSIVE mapping_entries(_)
mapping_entries(lines) ==
    IF lines = <<>> THEN <<>>
    ELSE mapping_entry(Strip(Head(lines))) \o mapping_entries(Tail(lines))

\* (A description that was never set reads as the empty string.)
parse_tile_mapping(description) ==
    mapping_entries(SplitLines(Strip(description)))

-----------------------------------------------------------------------------
(* Harness for the pure functions: Init draws an input, one action applies *)
(* the function.                                                           *)

\* Pixel content of a test tile: every pixel distinct and non-zero.
CodedPixel(c, r, col) ==
    IF c = 0 THEN 10 * r + col ELSE [k \in 1..c |-> 100 * k + 10 * r + col]

CodedArray(h, w, c) ==
    [h |-> h, w |-> w, c |-> c, u8 |-> TRUE,
     px |-> [p \in (1..h) \X (1..w) |-> CodedPixel(c, p[1], p[2])]]

ZeroArray(h, w, c) ==
    [h |-> h, w |-> w, c |-> c, u8 |-> TRUE,
     px |-> [p \in (1..h) \X (1..w) |-> Zero(c)]]

\* Channel layouts of a tile: 2-D (grey) or (H, W, 3) (RGB).
TileChannels == {0, 3}

StackInputArrays ==
    UNION {{CodedArray(h, w, c), ZeroArray(h, w, c)} :
              h \in 1..MaxDim, w \in 1..MaxDim, c \in TileChannels}

SeqsUpTo(S, n) == UNION {[1..k -> S] : k \in 0..n}

StackInputs == SeqsUpTo(StackInputArrays, MaxStack)

\* Values of a mask pixel: background, class, and two values that are neither.
MaskValues == {0, 100, 200, 255}

\* Masks given to binarize_mask_array: one row of up to MaxMaskW pixels; 2-D,
\* RGB or RGBA of dtype uint8, and 2-D masks of a wider dtype, whose values
\* may exceed 255.
MaskPixels(c) ==
    IF c = 0 THEN MaskValues
    ELSE IF c = 3 THEN [1..3 -> {0, 255}] \cup {<<200, 200, 200>>, <<200, 0, 255>>}
    ELSE {<<v, v, v, a>> : v \in {0, 200, 255}, a \in {0, 200, 255}}
         \cup {<<0, 255, 0, 255>>}

MaskInputs ==
    UNION {{[h |-> 1, w |-> w, c |-> c, u8 |-> TRUE, px |-> f] :
               f \in [(1..1) \X (1..w) -> MaskPixels(c)]} :
              w \in 1..MaxMaskW, c \in {0, 3, 4}}
    \cup
    UNION {{[h |-> 1, w |-> w, c |-> 0, u8 |-> FALSE, px |-> f] :
               f \in [(1..1) \X (1..w) -> MaskValues \cup {256, 511}]} :
              w \in 1..MaxMaskW}

ApplyStack ==
    /\ fpc = "stack"
    /\ fout' = stack_tile_arrays(fin)
    /\ fpc' = "stacked"
    /\ UNCHANGED <<fin, pipeVars>>

ApplyBinarize ==
    /\ fpc = "binarize"
    /\ fout' = binarize_mask_array(fin)
    /\ fpc' = "binarized"
    /\ UNCHANGED <<fin, pipeVars>>

-----------------------------------------------------------------------------
(* The data tree under --root and Slicer's file I/O.                       *)
(*   fs.rootIsDir : --root is a directory                                  *)
(*   fs.dirs      : the directories, <<case>> and <<case, folder>>         *)
(*   fs.files     : <<case, folder, name>> |-> [ok, arr]; ok says that     *)
(*                  Slicer can load the file, arr is the image in it       *)

sHE == <<"H", "E">>
sUnderscore == <<"_">>
sDot == <<".">>

\* sorted(root_path.iterdir()) restricted to entry.is_dir()
RootSubdirs(tree) == SortedNames({d[1] : d \in {x \in tree.dirs : Len(x) = 1}})

\* d.name for d in sorted(case_dir.iterdir()) if d.is_dir()
CaseSubdirs(tree, case_name) ==
    SortedNames({d[2] : d \in {x \in tree.dirs : Len(x) = 2 /\ x[1] = case_name}})

\* sorted(directory.glob(f"*{ext}")), as names
GlobExt(tree, case_name, folder, ext) ==
    SortedNames({p[3] : p \in {x \in DOMAIN tree.files :
                                  x[1] = case_name /\ x[2] = folder /\ EndsWith(x[3], ext)}})

IsFile(tree, path) == path \in DOMAIN tree.files

\* ext = args.ext if args.ext.startswith(".") else f".{args.ext}"
NormalizeExt(ext) == IF StartsWith(ext, sDot) THEN ext ELSE sDot \o ext

\* slicer.util.arrayFromVolume(node) of a node loaded from a 2-D image file:
\* Slicer wraps the image in a singleton Z axis, (1, H, W) or (1, H, W, C).
ArrayFromLoadedFile(content) ==
    [n |-> 1, h |-> content.arr.h, w |-> content.arr.w, c |-> content.arr.c,
     u8 |-> content.arr.u8,
     px |-> [p \in (1..1) \X (1..content.arr.h) \X (1..content.arr.w) |->
                content.arr.px[<<p[2], p[3]>>]]]

\* slicer.util.loadVolume / loadLabelVolume gives a node: the file exists and loads
Loads(tree, path) == IsFile(tree, path) /\ tree.files[path].ok

\* if arr.ndim >= 3 and arr.shape[0] == 1: arr = arr[0]
SqueezeZ(vol) ==
    IF Len(VolShapeOf(vol)) >= 3 /\ vol.n = 1 THEN VolSlice(vol, 0) ELSE vol

load_tile_image_array(tree, file_path) ==
    IF ~Loads(tree, file_path) THEN None
    ELSE SqueezeZ(ArrayFromLoadedFile(tree.files[file_path]))

load_mask_as_binary(tree, file_path) ==
    IF ~Loads(tree, file_path) THEN None
    ELSE binarize_mask_array(SqueezeZ(ArrayFromLoadedFile(tree.files[file_path])))

\* build_mask_index: suffix |-> file name, for the files of the class folder
\* that end in ext and start with "<case>_<class>_".
build_mask_index(tree, case_name, class_name, ext) ==
    LET prefix == case_name \o sUnderscore \o class_name \o sUnderscore
        names == {nm \in {GlobExt(tree, case_name, class_name, ext)[k] :
                             k \in DOMAIN GlobExt(tree, case_name, class_name, ext)} :
                     StartsWith(nm, prefix)}
    IN  [suffix \in {DropPrefix(nm, Len(prefix)) : nm \in names} |-> prefix \o suffix]

\* he_files[:n] for a Python int n (a negative n counts from the end)
PySliceTo(s, n) ==
    IF n >= 0 THEN SubSeq(s, 1, Min(n, Len(s)))
    ELSE SubSeq(s, 1, Max(0, Len(s) + n))

\* if args.max_tiles_per_case is not None: he_files = he_files[:N]
\* (max_tiles_per_case is <<>> for None and <<N>> for an int)
limit_tiles(he_files, max_tiles_per_case) ==
    IF max_tiles_per_case = <<>> THEN he_files
    ELSE PySliceTo(he_files, max_tiles_per_case[1])

\* A mutant of mask_for_tile: the zero mask has the transposed size.
mask_for_tile_transposed(tree, case_name, class_name, index, suffix, img_arr) ==
    IF suffix \in DOMAIN index
       /\ load_mask_as_binary(tree, <<case_name, class_name, index[suffix]>>) # None
    THEN load_mask_as_binary(tree, <<case_name, class_name, index[suffix]>>)
    ELSE ZerosU8(img_arr.w, img_arr.h)

\* The mask slice of one tile for one class: the binarized mask file when the
\* index has the tile's suffix and the file loads, zeros of the tile's
\* (height, width) otherwise.
mask_for_tile(tree, case_name, class_name, index, suffix, img_arr) ==
    IF suffix \in DOMAIN index
    THEN LET mask_arr == load_mask_as_binary(tree, <<case_name, class_name, index[suffix]>>)
         IN  IF mask_arr # None THEN mask_arr
             ELSE ZerosU8(ShapeOf(img_arr)[1], ShapeOf(img_arr)[2])
    ELSE ZerosU8(ShapeOf(img_arr)[1], ShapeOf(img_arr)[2])

-----------------------------------------------------------------------------
(* The batch loader, automated_loading_batch.main.                         *)
(*   scene.folders : folder items of the subject hierarchy                 *)
(*   scene.vols    : volume nodes   [name, cls, array, desc]               *)
(*   scene.segs    : segmentation nodes [name, segments], a segment being  *)
(*                   [name, labelmap]                                      *)

EmptyScene == [folders |-> <<>>, vols |-> <<>>, segs |-> <<>>]

sHESuffix == <<"_", "H", "E">>
sSegmentationSuffix ==
    <<"_", "S", "e", "g", "m", "e", "n", "t", "a", "t", "i", "o", "n">>

\* ensure_folder_item: the folder item is created unless it exists
EnsureFolder(folders, name) ==
    IF \E k \in DOMAIN folders : folders[k] = name THEN folders
    ELSE Append(folders, name)

\* case_dirs: the sub-folders of --root that contain the HE folder, sorted
CaseDirs(tree, he_folder) ==
    LET HasHE(case_name) == <<case_name, he_folder>> \in tree.dirs
    IN  SelectSeq(RootSubdirs(tree), HasHE)

\* class_dirs of a case: its sub-folders other than the HE folder and those
\* whose name starts with "_"
ClassDirs(tree, case_name, he_folder) ==
    LET IsClass(nm) == nm # he_folder /\ ~StartsWith(nm, sUnderscore)
    IN  SelectSeq(CaseSubdirs(tree, case_name), IsClass)

ImagePrefix(case_name, he_folder) ==
    case_name \o sUnderscore \o he_folder \o sUnderscore

\* he_files of a case before the limit: names in the HE folder that end in
\* ext and start with the image prefix, sorted
HeFiles(tree, case_name, he_folder, ext) ==
    LET HasPrefix(nm) == StartsWith(nm, ImagePrefix(case_name, he_folder))
    IN  SelectSeq(GlobExt(tree, case_name, he_folder, ext), HasPrefix)

\* The locals of one iteration of the loop over case_dirs (phases 1 and 2).
CaseIteration(tree, args, case_name) ==
    LET he_folder == args.he_folder
        class_dirs == ClassDirs(tree, case_name, he_folder)
        image_prefix == ImagePrefix(case_name, he_folder)
        all_he_files == HeFiles(tree, case_name, he_folder, args.ext)
        he_files == limit_tiles(all_he_files, args.max_tiles_per_case)
        class_mask_index ==
            [cn \in {class_dirs[k] : k \in DOMAIN class_dirs} |->
                build_mask_index(tree, case_name, cn, args.ext)]
        \* phase 1: tiles that fail to load are skipped (continue)
        Loaded(nm) == load_tile_image_array(tree, <<case_name, he_folder, nm>>) # None
        ok_files == SelectSeq(he_files, Loaded)
        tile_image_arrays ==
            [k \in DOMAIN ok_files |->
                load_tile_image_array(tree, <<case_name, he_folder, ok_files[k]>>)]
        tile_names == [k \in DOMAIN ok_files |-> PathStem(ok_files[k])]
        tile_mask_arrays ==
            [cn \in DOMAIN class_mask_index |->
                [k \in DOMAIN ok_files |->
                    mask_for_tile(tree, case_name, cn, class_mask_index[cn],
                                  DropPrefix(ok_files[k], Len(image_prefix)),
                                  tile_image_arrays[k])]]
        \* mask files handed to load_mask_as_binary
        mask_loads ==
            {<<cn, class_mask_index[cn][DropPrefix(ok_files[k], Len(image_prefix))]>> :
                 <<cn, k>> \in {x \in (DOMAIN class_mask_index) \X (DOMAIN ok_files) :
                     DropPrefix(ok_files[x[2]], Len(image_prefix))
                         \in DOMAIN class_mask_index[x[1]]}}
    IN  [case_name |-> case_name,
         class_dirs |-> class_dirs,
         all_he_files |-> all_he_files,
         he_files |-> IF all_he_files = <<>> THEN <<>> ELSE he_files,
         ok_files |-> IF all_he_files = <<>> THEN <<>> ELSE ok_files,
         tile_names |-> IF all_he_files = <<>> THEN <<>> ELSE tile_names,
         tile_image_arrays |-> IF all_he_files = <<>> THEN <<>> ELSE tile_image_arrays,
         tile_mask_arrays |->
             IF all_he_files = <<>> THEN [cn \in DOMAIN class_mask_index |-> <<>>]
             ELSE tile_mask_arrays,
         mask_loads |-> IF all_he_files = <<>> THEN {} ELSE mask_loads,
         status |-> IF all_he_files = <<>> THEN "no_tiles"
                    ELSE IF ok_files = <<>> THEN "no_loaded"
                    ELSE IF stack_tile_arrays(tile_image_arrays) = ValueError
                         THEN "ValueError"
                    ELSE "stacked"]

\* Phase 3 for one class: the segment ImportLabelmapToSegmentationNode adds for
\* the stacked mask (none when the stack is all zero), named after the class.
ClassSegment(it, class_name) ==
    LET stacked_mask == stack_tile_arrays(it.tile_mask_arrays[class_name])
    IN  IF stacked_mask = None \/ ~NpAny(stacked_mask) THEN <<>>
        ELSE <<[name |-> class_name, labelmap |-> stacked_mask]>>

RECURSIVE ClassSegments(_, _)
ClassSegments(it, class_dirs) ==
    IF class_dirs = <<>> THEN <<>>
    ELSE ClassSegment(it, Head(class_dirs)) \o ClassSegments(it, Tail(class_dirs))

\* The volume node of a case: "<case>_HE", vector when the stack is 4-D.
VolumeNode(it) ==
    LET stacked_image == stack_tile_arrays(it.tile_image_arrays)
        is_vector == Len(VolShapeOf(stacked_image)) = 4
    IN  [name |-> it.case_name \o sHESuffix,
         cls |-> IF is_vector THEN "vtkMRMLVectorVolumeNode"
                 ELSE "vtkMRMLScalarVolumeNode",
         array |-> stacked_image,
         desc |-> build_mapping(it.tile_names)]

SegmentationNode(it) ==
    [name |-> it.case_name \o sSegmentationSuffix,
     segments |-> ClassSegments(it, it.class_dirs)]

\* Number of mask files of an iteration that loaded (each a temporary node).
LoadedMaskCount(tree, it) ==
    Cardinality({m \in it.mask_loads : Loads(tree, <<it.case_name, m[1], m[2]>>)})

LoaderTerminal == {"done", "FileNotFoundError", "RuntimeError", "ValueError",
                   "SaveFailed"}

\* main, lines 306-342: the argument checks and the list of cases.
LoaderStart ==
    /\ lpc = "start"
    /\ IF ~fs.rootIsDir
       THEN /\ lpc' = "FileNotFoundError"
            /\ UNCHANGED <<lqueue, scene>>
       ELSE IF CaseDirs(fs, largs.he_folder) = <<>>
       THEN /\ lpc' = "RuntimeError"
            /\ UNCHANGED <<lqueue, scene>>
       ELSE /\ lpc' = "cases"
            /\ lqueue' = CaseDirs(fs, largs.he_folder)
            /\ scene' = [scene EXCEPT !.folders = EnsureFolder(@, <<"r", "o", "o", "t">>)]
    /\ UNCHANGED <<fs, orig, largs, llog, lnodes, sceneFile, outDirMade, edits,
                   xpc, xargs, xqueue, xscene, xlog, xnodes, written, fnVars>>

\* main, lines 344-501: one iteration of the loop over case_dirs.
LoaderCase ==
    /\ lpc = "cases"
    /\ lqueue # <<>>
    /\ LET it == CaseIteration(fs, [largs EXCEPT !.ext = NormalizeExt(@)], Head(lqueue))
           tile_loads == Len(it.ok_files)
       IN  /\ llog' = Append(llog, it)
           /\ lqueue' = Tail(lqueue)
           /\ CASE it.status = "no_tiles" ->
                     UNCHANGED <<lpc, scene, lnodes>>
                [] it.status = "no_loaded" ->
                     /\ scene' = [scene EXCEPT !.folders = EnsureFolder(@, it.case_name)]
                     /\ UNCHANGED <<lpc, lnodes>>
                [] it.status = "ValueError" ->
                     /\ lpc' = "ValueError"
                     /\ scene' = [scene EXCEPT !.folders = EnsureFolder(@, it.case_name)]
                     /\ lnodes' = lnodes + tile_loads + LoadedMaskCount(fs, it)
                [] OTHER ->
                     /\ scene' = [folders |-> EnsureFolder(scene.folders, it.case_name),
                                  vols |-> Append(scene.vols, VolumeNode(it)),
                                  segs |-> Append(scene.segs, SegmentationNode(it))]
                     /\ lnodes' = lnodes + tile_loads + LoadedMaskCount(fs, it) + 2
                                    + Len(SegmentationNode(it).segments)
                     /\ UNCHANGED lpc
    /\ UNCHANGED <<fs, orig, largs, sceneFile, outDirMade, edits,
                   xpc, xargs, xqueue, xscene, xlog, xnodes, written, fnVars>>

\* main, lines 503-534: after the loop, the scene is saved unless --no-save.
\* slicer.util.saveScene may report failure.
LoaderFinish ==
    /\ lpc = "cases"
    /\ lqueue = <<>>
    /\ IF largs.no_save
       THEN /\ lpc' = "done"
            /\ UNCHANGED <<sceneFile, outDirMade>>
       ELSE /\ outDirMade' = TRUE
            /\ \E saved \in BOOLEAN :
                  IF saved
                  THEN sceneFile' = scene /\ lpc' = "done"
                  ELSE UNCHANGED sceneFile /\ lpc' = "SaveFailed"
    /\ UNCHANGED <<fs, orig, largs, lqueue, scene, llog, lnodes, edits,
                   xpc, xargs, xqueue, xscene, xlog, xnodes, written, fnVars>>

-----------------------------------------------------------------------------
(* The exporter, export_segmentations.main.                                *)

RuntimeError == [error |-> "RuntimeError"]

\* read_image_dimensions: [h, w] for the tuple (h, w), None for (None, None).
\* sitk says that SimpleITK was imported; its reader raises on a file it
\* cannot read.  size is (width, height); the fallback takes the last two
\* axes of the array Slicer loads.
read_image_dimensions(tree, file_path, sitk) ==
    IF sitk
    THEN IF ~Loads(tree, file_path) THEN RuntimeError
         ELSE LET size == <<tree.files[file_path].arr.w, tree.files[file_path].arr.h>>
              IN  [h |-> size[2], w |-> size[1]]
    ELSE IF ~Loads(tree, file_path) THEN None
         ELSE LET shape == VolShapeOf(ArrayFromLoadedFile(tree.files[file_path]))
              IN  [h |-> shape[Len(shape) - 1], w |-> shape[Len(shape)]]

\* A mutant of CaseNameOf: every "_Segmentation" at the end is removed.
RECURSIVE CaseNameAllSuffixesRemoved(_)
CaseNameAllSuffixesRemoved(seg_name) ==
    IF EndsWith(seg_name, sSegmentationSuffix)
    THEN CaseNameAllSuffixesRemoved(DropSuffix(seg_name, Len(sSegmentationSuffix)))
    ELSE seg_name

\* Derive case name: "<case>_Segmentation" -> "<case>"
CaseNameOf(seg_name) ==
    IF EndsWith(seg_name, sSegmentationSuffix)
    THEN DropSuffix(seg_name, Len(sSegmentationSuffix))
    ELSE seg_name

\* The matching HE volume: the first vector volume of that name, else the
\* first scalar volume of that name (a vector volume node is a scalar volume
\* node too); None when there is none.
FindVolume(sc, vol_name) ==
    LET vec == {k \in DOMAIN sc.vols : sc.vols[k].cls = "vtkMRMLVectorVolumeNode"
                                       /\ sc.vols[k].name = vol_name}
        any == {k \in DOMAIN sc.vols : sc.vols[k].name = vol_name}
        First(S) == CHOOSE k \in S : \A j \in S : k <= j
    IN  IF vec # {} THEN sc.vols[First(vec)]
        ELSE IF any # {} THEN sc.vols[First(any)]
        ELSE None

\* ExportSegmentsToLabelmapNode(seg_node, [segment], label_node, vol_node): the
\* segment on the geometry of the reference volume, (Z, H, W).
ExportedLabelmap(segment, vol_node) ==
    LET lm == segment.labelmap
        ref == vol_node.array
    IN  [n |-> ref.n, h |-> ref.h, w |-> ref.w, c |-> 0, u8 |-> TRUE,
         px |-> [p \in (1..ref.n) \X (1..ref.h) \X (1..ref.w) |->
                    IF p[1] <= lm.n /\ p[2] <= lm.h /\ p[3] <= lm.w /\ lm.px[p] > 0
                    THEN 1 ELSE 0]]

\* f"{image_prefix}{tile_suffix}{ext}" in he_dir, for a tile stem of the mapping
HePathOf(case_name, he_folder, tile_stem, ext) ==
    LET image_prefix == ImagePrefix(case_name, he_folder)
        tile_suffix == DropPrefix(tile_stem, Len(image_prefix))
    IN  <<case_name, he_folder, image_prefix \o tile_suffix \o ext>>

\* class_dir / f"{case_name}_{class_name}_{tile_suffix}{tag}{ext}"
OutputPath(case_name, he_folder, class_name, tile_stem, tag, ext) ==
    LET image_prefix == ImagePrefix(case_name, he_folder)
        tile_suffix == DropPrefix(tile_stem, Len(image_prefix))
    IN  <<case_name, class_name,
          case_name \o sUnderscore \o class_name \o sUnderscore
              \o tile_suffix \o tag \o ext>>

\* The array written for one slice: the slice, cropped to the tile's size when
\* tile_dims has it, as a 0/255 mask.
SliceMask(mask_3d, slice_idx, tile_dims) ==
    LET slice_mask == VolSlice(mask_3d, slice_idx)
        cropped == IF slice_idx \in DOMAIN tile_dims
                   THEN Crop(slice_mask, tile_dims[slice_idx].h, tile_dims[slice_idx].w)
                   ELSE slice_mask
    IN  ToBinary255(cropped)

\* The save_binary_png calls of one segment, in slice order.
SegmentOutputs(case_name, args, segment, vol_node, tile_names, tile_dims) ==
    LET mask_3d == ExportedLabelmap(segment, vol_node)
        count == Min(Len(tile_names), mask_3d.n)
    IN  [k \in 1..count |->
            [path |-> OutputPath(case_name, args.he_folder, segment.name,
                                 tile_names[k], args.tag, args.ext),
             arr |-> SliceMask(mask_3d, k - 1, tile_dims),
             case_name |-> case_name,
             class_name |-> segment.name,
             slice_idx |-> k - 1,
             mask_3d |-> mask_3d]]

RECURSIVE AllSegmentOutputs(_, _, _, _, _, _)
AllSegmentOutputs(case_name, args, segments, vol_node, tile_names, tile_dims) ==
    IF segments = <<>> THEN <<>>
    ELSE SegmentOutputs(case_name, args, Head(segments), vol_node, tile_names, tile_dims)
         \o AllSegmentOutputs(case_name, args, Tail(segments), vol_node,
                              tile_names, tile_dims)

\* The locals of one iteration of the loop over seg_nodes.
SegNodeIteration(tree, sc, args, seg_node) ==
    LET case_name == CaseNameOf(seg_node.name)
        vol_name == case_name \o sHESuffix
        vol_node == FindVolume(sc, vol_name)
        tile_names == parse_tile_mapping(vol_node.desc)
        he_path(k) == HePathOf(case_name, args.he_folder, tile_names[k], args.ext)
        on_disk == {k \in DOMAIN tile_names : IsFile(tree, he_path(k))}
        dims(k) == read_image_dimensions(tree, he_path(k), args.sitk)
        raised == \E k \in on_disk : dims(k) = RuntimeError
        tile_dims == [i \in {k - 1 : k \in {j \in on_disk : dims(j) # None}} |->
                         dims(i + 1)]
        outputs == AllSegmentOutputs(case_name, args, seg_node.segments, vol_node,
                                     tile_names, tile_dims)
        status == IF vol_node = None THEN "no_volume"
                  ELSE IF tile_names = <<>> THEN "no_mapping"
                  ELSE IF raised THEN "RuntimeError"
                  ELSE "exported"
    IN  [seg_name |-> seg_node.name,
         case_name |-> case_name,
         status |-> status,
         vol_node |-> vol_node,
         tile_names |-> IF vol_node = None THEN <<>> ELSE tile_names,
         tile_dims |-> IF status = "exported" THEN tile_dims ELSE <<>>,
         dims_read |-> IF status = "exported" THEN Cardinality(DOMAIN tile_dims) ELSE 0,
         outputs |-> IF status = "exported" THEN outputs ELSE <<>>]

\* The files of the tree after the save_binary_png calls, in order.
RECURSIVE WriteAll(_, _)
WriteAll(files, outputs) ==
    IF outputs = <<>> THEN files
    ELSE LET o == Head(outputs)
             new == [p \in (DOMAIN files) \cup {o.path} |->
                        IF p = o.path THEN [ok |-> TRUE, arr |-> o.arr] ELSE files[p]]
         IN  WriteAll(new, Tail(outputs))

\* class_dir.mkdir(parents=True, exist_ok=True) for every segment
MadeDirs(it) ==
    UNION {{<<it.case_name>>, <<it.case_name, it.outputs[k].class_name>>} :
              k \in DOMAIN it.outputs}

\* A mutant of export_checks: --root is not checked.
export_checks_root_unchecked(args, scene_file, tree) ==
    IF ~(args.scene_ok /\ scene_file # None) THEN "FileNotFoundError_scene"
    ELSE "ok"

\* main, lines 164-167: scene_path.is_file(), then root_path.is_dir().  The
\* scene path names the saved scene when args.scene_ok, the root path names
\* the data tree when args.root_ok; otherwise they name nothing.
export_checks(args, scene_file, tree) ==
    IF ~(args.scene_ok /\ scene_file # None) THEN "FileNotFoundError_scene"
    ELSE IF ~(args.root_ok /\ tree.rootIsDir) THEN "FileNotFoundError_root"
    ELSE "ok"

ExportTerminal == {"done", "FileNotFoundError_scene", "FileNotFoundError_root",
                   "RuntimeError", "nothing_to_export"}

\* main, lines 153-180: the checks and the loading of the scene.
ExportStart ==
    /\ xpc = "start"
    /\ lpc \in LoaderTerminal
    /\ IF export_checks(xargs, sceneFile, fs) # "ok"
       THEN /\ xpc' = export_checks(xargs, sceneFile, fs)
            /\ UNCHANGED <<xqueue, xscene, xnodes>>
       ELSE /\ xscene' = sceneFile
            /\ xnodes' = xnodes + Len(sceneFile.vols) + Len(sceneFile.segs)
            /\ IF sceneFile.segs = <<>>
               THEN xpc' = "nothing_to_export" /\ UNCHANGED xqueue
               ELSE xpc' = "seg_nodes" /\ xqueue' = sceneFile.segs
    /\ UNCHANGED <<fs, orig, lpc, largs, lqueue, scene, llog, lnodes, sceneFile,
                   outDirMade, edits, xargs, xlog, written, fnVars>>

\* main, lines 182-279: one iteration of the loop over seg_nodes.
ExportSegNode ==
    /\ xpc = "seg_nodes"
    /\ xqueue # <<>>
    /\ LET it == SegNodeIteration(fs, xscene, [xargs EXCEPT !.ext = NormalizeExt(@)],
                                   Head(xqueue))
       IN  /\ xlog' = Append(xlog, it)
           /\ xqueue' = Tail(xqueue)
           /\ IF it.status = "exported"
              THEN /\ fs' = [fs EXCEPT !.files = WriteAll(@, it.outputs),
                                       !.dirs = @ \cup MadeDirs(it)]
                   /\ written' = written \o it.outputs
                   /\ xnodes' = xnodes + Len(Head(xqueue).segments)
                                  + (IF xargs.sitk THEN 0
                                     ELSE it.dims_read + Len(it.outputs))
                   /\ UNCHANGED xpc
              ELSE IF it.status = "RuntimeError"
              THEN /\ xpc' = "RuntimeError"
                   /\ UNCHANGED <<fs, written, xnodes>>
              ELSE UNCHANGED <<fs, written, xnodes, xpc>>
    /\ UNCHANGED <<orig, lpc, largs, lqueue, scene, llog, lnodes, sceneFile,
                   outDirMade, edits, xargs, xscene, fnVars>>

\* main, lines 281-282: the loop is over.
ExportFinish ==
    /\ xpc = "seg_nodes"
    /\ xqueue = <<>>
    /\ xpc' = "done"
    /\ UNCHANGED <<fs, orig, lpc, largs, lqueue, scene, llog, lnodes, sceneFile,
                   outDirMade, edits, xargs, xqueue, xscene, xlog, xnodes, written,
                   fnVars>>

-----------------------------------------------------------------------------
(* The interactive step between load and export: the user toggles one      *)
(* voxel of a segment in the segment editor and saves the scene.           *)

UserEdit ==
    /\ lpc = "done"
    /\ xpc = "start"
    /\ sceneFile # None
    /\ edits > 0
    /\ \E i \in DOMAIN sceneFile.segs :
         \E j \in DOMAIN sceneFile.segs[i].segments :
           \E p \in DOMAIN sceneFile.segs[i].segments[j].labelmap.px :
              sceneFile' = [sceneFile EXCEPT
                              !.segs[i].segments[j].labelmap.px[p] = 1 - @]
    /\ edits' = edits - 1
    /\ UNCHANGED <<fs, orig, lpc, largs, lqueue, scene, llog, lnodes, outDirMade,
                   xpc, xargs, xqueue, xscene, xlog, xnodes, written, fnVars>>

-----------------------------------------------------------------------------
(* Initial states: a data tree, the two command lines and the number of    *)
(* edits the user makes.                                                   *)

cA == <<"A">>
cB == <<"B">>
sST == <<"s", "t">>
sUX == <<"_", "x">>
sEdited == <<"_", "e", "d", "i", "t", "e", "d">>
sPng == <<".", "p", "n", "g">>
sPngNoDot == <<"p", "n", "g">>
sOmePng == <<".", "o", "m", "e", ".", "p", "n", "g">>
t1 == <<"1">>
t2 == <<"2">>
t3 == <<"3">>
t1sp == <<"1", " ">>
t1ed == t1 \o sEdited

HeName(case_name, id, ext) == ImagePrefix(case_name, sHE) \o id \o ext
MaskName(case_name, class_name, id, ext) ==
    case_name \o sUnderscore \o class_name \o sUnderscore \o id \o ext

Unreadable == [ok |-> FALSE, arr |-> ZeroArray(1, 1, 0)]
Readable(arr) == [ok |-> TRUE, arr |-> arr]

\* A mask file of the given size: 255 on the pixels of on, 0 elsewhere.
MaskArray(h, w, on) ==
    [h |-> h, w |-> w, c |-> 0, u8 |-> TRUE,
     px |-> [p \in (1..h) \X (1..w) |-> IF p \in on THEN 255 ELSE 0]]

\* A tree from a set of [path, content] entries and a set of directories.
TreeOf(rootIsDir, dirs, entries) ==
    [rootIsDir |-> rootIsDir,
     dirs |-> dirs,
     files |-> [p \in {e.path : e \in entries} |->
                   (CHOOSE e \in entries : e.path = p).content]]

RECURSIVE SubsetsUpTo(_, _)
SubsetsUpTo(S, n) ==
    IF n = 0 THEN {{}}
    ELSE LET P == SubsetsUpTo(S, n - 1) IN P \cup {T \cup {x} : T \in P, x \in S}

SubsetsOfSize(S, lo, hi) == {T \in SubsetsUpTo(S, hi) : Cardinality(T) >= lo}

DefaultLoaderArgs ==
    [he_folder |-> sHE, ext |-> sPng, max_tiles_per_case |-> <<>>, no_save |-> FALSE]

DefaultExportArgs ==
    [he_folder |-> sHE, ext |-> sPng, tag |-> sEdited, sitk |-> TRUE,
     scene_ok |-> TRUE, root_ok |-> TRUE]

\* Family 1, file names: one case whose tiles are 1 x 1 grey images, each
\* with its class mask; tile IDs with a trailing blank and with the default
\* tag in them; files with one or two suffixes; every --ext, --tag and
\* --max-tiles-per-case.
NameTileIds == {t1, t2, t1sp, t1ed}

NameTrees ==
    {TreeOf(TRUE, {<<cA>>, <<cA, sHE>>, <<cA, sST>>},
            {[path |-> <<cA, sHE, HeName(cA, id, e)>>,
              content |-> Readable(CodedArray(1, 1, 0))] : id \in ids}
            \cup
            {[path |-> <<cA, sST, MaskName(cA, sST, id, e)>>,
              content |-> Readable(MaskArray(1, 1, {<<1, 1>>}))] : id \in ids}) :
        ids \in SubsetsOfSize(NameTileIds, 1, MaxTiles), e \in {sPng, sOmePng}}

NameLoaderArgs ==
    {[DefaultLoaderArgs EXCEPT !.ext = e, !.max_tiles_per_case = m] :
        e \in {sPngNoDot, sPng, sOmePng},
        m \in {<<>>} \cup {<<n>> : n \in (-1)..MaxLimit}}

NameExportArgs ==
    {[DefaultExportArgs EXCEPT !.ext = e, !.tag = t] :
        e \in {sPng, sOmePng}, t \in {<<>>, sEdited}}

NameScenarios ==
    {[tree |-> tr, largs |-> la, xargs |-> xa, edits |-> 0] :
        tr \in NameTrees, la \in NameLoaderArgs, xa \in NameExportArgs}

\* Family 2, arrays: one case with tiles "1" and "2" of every size up to
\* MaxDim, grey or RGB, readable or not; per tile the class mask is absent,
\* unreadable, or set on its first pixel; a mask without tile and a folder
\* "_x"; SimpleITK importable or not.
ArrayTileIds == {t1, t2}

TileContents ==
    {Unreadable} \cup
    {Readable(CodedArray(h, w, c)) : h \in 1..MaxDim, w \in 1..MaxDim, c \in TileChannels}

MaskChoices(tile) ==
    IF tile.ok
    THEN {None, Unreadable, Readable(MaskArray(tile.arr.h, tile.arr.w, {<<1, 1>>}))}
    ELSE {None, Readable(MaskArray(1, 1, {<<1, 1>>}))}

TileAndMask ==
    UNION {{[tile |-> t, mask |-> m] : m \in MaskChoices(t)} : t \in TileContents}

ArrayTree(f) ==
    TreeOf(TRUE, {<<cA>>, <<cA, sHE>>, <<cA, sST>>, <<cA, sUX>>},
           {[path |-> <<cA, sHE, HeName(cA, id, sPng)>>,
             content |-> f[id].tile] : id \in DOMAIN f}
           \cup
           {[path |-> <<cA, sST, MaskName(cA, sST, id, sPng)>>,
             content |-> f[id].mask] : id \in {i \in DOMAIN f : f[i].mask # None}}
           \cup
           {[path |-> <<cA, sST, MaskName(cA, sST, t3, sPng)>>,
             content |-> Readable(MaskArray(1, 1, {<<1, 1>>}))]})

ArrayTrees ==
    {ArrayTree(f) :
        f \in UNION {[ids -> TileAndMask] : ids \in (SUBSET ArrayTileIds) \ {{}}}}

ArrayScenarios ==
    {[tree |-> tr, largs |-> DefaultLoaderArgs,
      xargs |-> [DefaultExportArgs EXCEPT !.sitk = sk], edits |-> 0] :
        tr \in ArrayTrees, sk \in BOOLEAN}

\* Family 3, edits: one case with a wide tile "1" and a tall tile "2" (so
\* that both are padded), grey or RGB, tile "1" with a mask and tile "2" with
\* or without; the user makes up to MaxEdits edits before the export.
EditTrees ==
    {ArrayTree([id \in ArrayTileIds |->
                   IF id = t1
                   THEN [tile |-> Readable(CodedArray(1, MaxDim, c)),
                         mask |-> Readable(MaskArray(1, MaxDim, {<<1, 1>>}))]
                   ELSE [tile |-> Readable(CodedArray(MaxDim, 1, c)),
                         mask |-> m]]) :
        c \in TileChannels,
        m \in {None, Readable(MaskArray(MaxDim, 1, {<<1, 1>>}))}}

EditScenarios ==
    {[tree |-> tr, largs |-> DefaultLoaderArgs,
      xargs |-> [DefaultExportArgs EXCEPT !.sitk = sk], edits |-> n] :
        tr \in EditTrees, sk \in BOOLEAN, n \in 1..MaxEdits}

\* Family 4, folders: --root missing; cases "A" and "B", each absent, without
\* HE folder, with an empty HE folder, or with one tile with or without mask;
\* --no-save; an --scene or an exporter --root that does not exist.
CaseKinds == {"absent", "no_he", "empty_he", "tile", "tile_mask"}

CaseDirsOf(case_name, kind) ==
    IF kind = "absent" THEN {}
    ELSE IF kind = "no_he" THEN {<<case_name>>, <<case_name, sST>>}
    ELSE IF kind = "tile" THEN {<<case_name>>, <<case_name, sHE>>}
    ELSE {<<case_name>>, <<case_name, sHE>>, <<case_name, sST>>}

CaseEntriesOf(case_name, kind) ==
    (IF kind \in {"tile", "tile_mask"}
     THEN {[path |-> <<case_name, sHE, HeName(case_name, t1, sPng)>>,
            content |-> Readable(CodedArray(1, 1, 0))]}
     ELSE {})
    \cup
    (IF kind \in {"tile_mask", "no_he"}
     THEN {[path |-> <<case_name, sST, MaskName(case_name, sST, t1, sPng)>>,
            content |-> Readable(MaskArray(1, 1, {<<1, 1>>}))]}
     ELSE {})

FolderTrees ==
    {TreeOf(FALSE, {}, {})} \cup
    {TreeOf(TRUE, CaseDirsOf(cA, ka) \cup CaseDirsOf(cB, kb),
            CaseEntriesOf(cA, ka) \cup CaseEntriesOf(cB, kb)) :
        ka \in CaseKinds, kb \in CaseKinds}

FolderScenarios ==
    {[tree |-> tr,
      largs |-> [DefaultLoaderArgs EXCEPT !.no_save = ns],
      xargs |-> [DefaultExportArgs EXCEPT !.scene_ok = so, !.root_ok = ro],
      edits |-> 0] :
        tr \in FolderTrees, ns \in BOOLEAN, so \in BOOLEAN, ro \in BOOLEAN}

\* Family 5, case names: one or two case folders named "A", or a name that
\* ends in "_HE" or "_Segmentation" (once or twice); each case has one 1 x 1
\* tile, grey or RGB, with its mask; SimpleITK importable or not.
CaseNameSet ==
    {cA, cA \o sHESuffix, cA \o sSegmentationSuffix,
     cA \o sHESuffix \o sSegmentationSuffix,
     cA \o sSegmentationSuffix \o sSegmentationSuffix}

CaseNameTree(ch) ==
    TreeOf(TRUE,
           UNION {{<<cn>>, <<cn, sHE>>, <<cn, sST>>} : cn \in DOMAIN ch},
           UNION {{[path |-> <<cn, sHE, HeName(cn, t1, sPng)>>,
                    content |-> Readable(CodedArray(1, 1, ch[cn]))],
                   [path |-> <<cn, sST, MaskName(cn, sST, t1, sPng)>>,
                    content |-> Readable(MaskArray(1, 1, {<<1, 1>>}))]} :
                     cn \in DOMAIN ch})

CaseNameTrees ==
    {CaseNameTree(ch) :
        ch \in UNION {[names -> TileChannels] : names \in SubsetsOfSize(CaseNameSet, 1, 2)}}

CaseNameScenarios ==
    {[tree |-> tr, largs |-> DefaultLoaderArgs,
      xargs |-> [DefaultExportArgs EXCEPT !.sitk = sk], edits |-> 0] :
        tr \in CaseNameTrees, sk \in BOOLEAN}

Scenarios ==
    NameScenarios \cup ArrayScenarios \cup EditScenarios \cup FolderScenarios
        \cup CaseNameScenarios

FnIdle == [none |-> TRUE]

Init ==
    /\ \E sc \in Scenarios :
          /\ fs = sc.tree
          /\ orig = sc.tree
          /\ largs = sc.largs
          /\ xargs = sc.xargs
          /\ edits = sc.edits
    /\ lpc = "start"
    /\ lqueue = <<>>
    /\ scene = EmptyScene
    /\ llog = <<>>
    /\ lnodes = 0
    /\ sceneFile = None
    /\ outDirMade = FALSE
    /\ xpc = "start"
    /\ xqueue = <<>>
    /\ xscene = EmptyScene
    /\ xlog = <<>>
    /\ xnodes = 0
    /\ written = <<>>
    /\ fin = FnIdle
    /\ fout = FnIdle
    /\ fpc = "idle"

Next ==
    \/ LoaderStart
    \/ LoaderCase
    \/ LoaderFinish
    \/ UserEdit
    \/ ExportStart
    \/ ExportSegNode
    \/ ExportFinish

Spec == Init /\ [][Next]_vars

-----------------------------------------------------------------------------
(* The pure functions on their own: Init draws the input of one function,  *)
(* the action of that function applies it.                                 *)

\* Characters of a tile ID in the mapping round trip.
MapIdChars == {"1", " ", ":"}

MapTileIds == SeqsUpTo(MapIdChars, MaxIdLen)

\* A case folder "A" holding one 1 x 1 tile per ID.
MapTree(ids) ==
    TreeOf(TRUE, {<<cA>>, <<cA, sHE>>},
           {[path |-> <<cA, sHE, HeName(cA, id, sPng)>>,
             content |-> Readable(CodedArray(1, 1, 0))] : id \in ids})

\* The tile_names the loader builds for such a folder.
MapInputs ==
    {[tile_names |-> CaseIteration(MapTree(ids), DefaultLoaderArgs, cA).tile_names] :
        ids \in SubsetsOfSize(MapTileIds, 1, MaxTiles)}

DimsTree(content) ==
    TreeOf(TRUE, {<<cA>>, <<cA, sHE>>},
           {[path |-> <<cA, sHE, HeName(cA, t1, sPng)>>, content |-> content]})

DimsInputs ==
    {[tree |-> DimsTree(content), file_path |-> <<cA, sHE, HeName(cA, t1, sPng)>>,
      sitk |-> sk] : content \in TileContents, sk \in BOOLEAN}

ApplyMapping ==
    /\ fpc = "mapping"
    /\ fout' = parse_tile_mapping(build_mapping(fin.tile_names))
    /\ fpc' = "mapped"
    /\ UNCHANGED <<fin, pipeVars>>

ApplyReadDimensions ==
    /\ fpc = "dimensions"
    /\ fout' = read_image_dimensions(fin.tree, fin.file_path, fin.sitk)
    /\ fpc' = "dimensions_read"
    /\ UNCHANGED <<fin, pipeVars>>

InitFn ==
    /\ \/ fpc = "stack" /\ fin \in StackInputs
       \/ fpc = "binarize" /\ fin \in MaskInputs
       \/ fpc = "mapping" /\ fin \in MapInputs
       \/ fpc = "dimensions" /\ fin \in DimsInputs
    /\ fout = FnIdle
    /\ fs = TreeOf(FALSE, {}, {})
    /\ orig = TreeOf(FALSE, {}, {})
    /\ largs = DefaultLoaderArgs
    /\ xargs = DefaultExportArgs
    /\ lpc = "idle"
    /\ lqueue = <<>>
    /\ scene = EmptyScene
    /\ llog = <<>>
    /\ lnodes = 0
    /\ sceneFile = None
    /\ outDirMade = FALSE
    /\ edits = 0
    /\ xpc = "idle"
    /\ xqueue = <<>>
    /\ xscene = EmptyScene
    /\ xlog = <<>>
    /\ xnodes = 0
    /\ written = <<>>

NextFn ==
    \/ ApplyStack
    \/ ApplyBinarize
    \/ ApplyMapping
    \/ ApplyReadDimensions

SpecFn == InitFn /\ [][NextFn]_vars

-----------------------------------------------------------------------------
(* Claims about the pure functions, checked under SpecFn.                  *)

\* C2: the slice-to-tile mapping round-trips: parse_tile_mapping of the
\* description the loader stores for tile_names returns tile_names, same
\* length and same order.
C2_MappingRoundTrips ==
    fpc = "mapped" => fout = fin.tile_names

C9_DimensionsAreHeightWidth ==
    fpc = "dimensions_read" =>
        LET content == fin.tree.files[fin.file_path]
        IN  /\ content.ok => fout = [h |-> content.arr.h, w |-> content.arr.w]
            /\ (~content.ok /\ ~fin.sitk) => fout = None

\* C10: binarize_mask_array gives a 2-D array of 0s and 1s: 1 where the
\* collapsed value is 255, 0 where it is 0, and, for a mask with values other
\* than 0 and 255, 1 exactly where the collapsed value is at least 128.
C10_BinarizeThresholds ==
    fpc = "binarized" =>
        LET collapsed == Collapsed(fin)
        IN  /\ fout.c = 0 /\ fout.h = fin.h /\ fout.w = fin.w
            /\ \A p \in DOMAIN fout.px : fout.px[p] \in {0, 1}
            /\ \A p \in DOMAIN collapsed :
                  /\ collapsed[p] = 255 => fout.px[p] = 1
                  /\ collapsed[p] = 0 => fout.px[p] = 0
            /\ (\E p \in DOMAIN collapsed : collapsed[p] \notin {0, 255}) =>
                  \A p \in DOMAIN collapsed :
                      fout.px[p] = 1 <=> collapsed[p] >= 128

-----------------------------------------------------------------------------
(* Claims about the pipeline, checked under Spec.                          *)

LogEntries == {llog[k] : k \in DOMAIN llog}

\* The loader's iteration that stacked the case (the exporter's case_name).
StackedEntries(case_name) ==
    {e \in LogEntries : e.case_name = case_name /\ e.status = "stacked"}

\* The HE file the loader stacked at slice_idx of the case, as a set (empty
\* when the loader stacked no such slice).
StackedFileAt(case_name, slice_idx) ==
    {e.ok_files[slice_idx + 1] :
        e \in {x \in StackedEntries(case_name) : slice_idx + 1 \in DOMAIN x.ok_files}}

\* <tileID> of the HE file name "<case>_<he-folder>_<tileID><ext>"
TileIdOf(name, case_name, he_folder, ext) ==
    SubSeq(name, Len(ImagePrefix(case_name, he_folder)) + 1, Len(name) - Len(ext))

\* C1: export never overwrites an original file: every path given to
\* save_binary_png differs from every file that was under --root before.
C1_NeverOverwritesOriginal ==
    \A k \in DOMAIN written : written[k].path \notin DOMAIN orig.files

\* C3: run with the --root, --he-folder and --ext of the load, export writes
\* slice i of segment <class> of <case> to
\* <case>/<class>/<case>_<class>_<tileID><tag><ext>, <tileID> being the tile ID
\* of the HE file the loader stacked at slice i.
C3_ExportedNamesFollowConvention ==
    (/\ xargs.root_ok
     /\ xargs.he_folder = largs.he_folder
     /\ NormalizeExt(xargs.ext) = NormalizeExt(largs.ext))
    => \A k \in DOMAIN written :
          LET o == written[k]
              ext == NormalizeExt(xargs.ext)
          IN  /\ StackedFileAt(o.case_name, o.slice_idx) # {}
              /\ \A name \in StackedFileAt(o.case_name, o.slice_idx) :
                    o.path = <<o.case_name, o.class_name,
                               o.case_name \o sUnderscore \o o.class_name \o sUnderscore
                                   \o TileIdOf(name, o.case_name, largs.he_folder, ext)
                                   \o xargs.tag \o ext>>

\* C4: every array written is a 0/255 mask, 255 exactly where the segment's
\* exported labelmap is > 0 at that slice position, and has the (height,
\* width) of the slice's HE tile whenever that tile file is under --root.
C4_WrittenMaskBinaryAndCropped ==
    \A k \in DOMAIN written :
        LET o == written[k]
        IN  /\ o.arr.c = 0
            /\ \A p \in DOMAIN o.arr.px :
                  /\ o.arr.px[p] \in {0, 255}
                  /\ o.arr.px[p] = 255 <=>
                        o.mask_3d.px[<<o.slice_idx + 1, p[1], p[2]>>] > 0
            /\ \A name \in StackedFileAt(o.case_name, o.slice_idx) :
                  LET he_path == <<o.case_name, largs.he_folder, name>>
                  IN  he_path \in DOMAIN fs.files =>
                         /\ o.arr.h = fs.files[he_path].arr.h
                         /\ o.arr.w = fs.files[he_path].arr.w

\* The case folders of the tree that contain the HE folder.
CasesWithHE(tree) == {d[1] : d \in {x \in tree.dirs : Len(x) = 2 /\ x[2] = sHE}}

\* C5: a missing --root (FileNotFoundError) or a --root without any case
\* folder holding the HE folder (RuntimeError) ends the loader, a missing
\* --scene or --root (FileNotFoundError) ends the exporter, and then no node
\* was added, no scene loaded or saved, no file or directory written.
C5_MissingInputsFatalFirst ==
    /\ (lpc \notin {"start", "idle"} /\ ~orig.rootIsDir) => lpc = "FileNotFoundError"
    /\ (lpc \notin {"start", "idle"} /\ orig.rootIsDir /\ CasesWithHE(orig) = {})
          => lpc = "RuntimeError"
    /\ lpc \in {"FileNotFoundError", "RuntimeError"} =>
          /\ lnodes = 0
          /\ scene = EmptyScene
          /\ sceneFile = None
          /\ ~outDirMade
          /\ fs = orig
          /\ llog = <<>>
    /\ (xpc \notin {"start", "idle"} /\ ~(xargs.scene_ok /\ sceneFile # None))
          => xpc = "FileNotFoundError_scene"
    /\ (xpc \notin {"start", "idle"} /\ xargs.scene_ok /\ sceneFile # None
            /\ ~(xargs.root_ok /\ orig.rootIsDir))
          => xpc = "FileNotFoundError_root"
    /\ xpc \in {"FileNotFoundError_scene", "FileNotFoundError_root"} =>
          /\ xnodes = 0
          /\ xscene = EmptyScene
          /\ written = <<>>
          /\ fs = orig
          /\ xlog = <<>>

\* C5 witness: the loader ended on a --root without HE folders and the
\* exporter on the scene that was therefore never saved.
C5_Witness ==
    /\ lpc = "RuntimeError"
    /\ orig.dirs # {}
    /\ xpc = "FileNotFoundError_scene"

\* C5, second witness: after a good load the exporter ended on its --root.
C5_WitnessExportRoot ==
    /\ lpc = "done"
    /\ sceneFile # None
    /\ xpc = "FileNotFoundError_root"

\* The readable HE files among names, by the tree as it was before the run.
ReadableHe(case_name, names) ==
    {nm \in names : <<case_name, sHE, nm>> \in DOMAIN orig.files
                    /\ orig.files[<<case_name, sHE, nm>>].ok}

SeqRange(sq) == {sq[k] : k \in DOMAIN sq}

C6_WitnessNextCase ==
    /\ lpc = "done"
    /\ Len(llog) = 2
    /\ llog[1].status = "no_tiles"
    /\ llog[2].status = "stacked"
    /\ Len(scene.vols) = 1

\* The HE tile files of a case before the run, by the loader's --ext.
HeTileFiles(case_name) ==
    {p[3] : p \in {x \in DOMAIN orig.files :
                      /\ x[1] = case_name /\ x[2] = largs.he_folder
                      /\ EndsWith(x[3], NormalizeExt(largs.ext))
                      /\ StartsWith(x[3], ImagePrefix(case_name, largs.he_folder))}}

\* The files stacked are among the first limit files in sorted name order.
AmongFirst(case_name, names, limit) ==
    \A nm \in names :
        Cardinality({g \in HeTileFiles(case_name) : StrLess(g, nm)}) < limit

\* C7: for every integer N given as --max-tiles-per-case and every case, the
\* loader stacks at most N tiles, and they are the first N HE tile files in
\* sorted filename order.
C7_LimitHoldsForEveryInteger ==
    largs.max_tiles_per_case # <<>> =>
        \A e \in LogEntries :
            /\ Len(e.tile_names) <= largs.max_tiles_per_case[1]
            /\ AmongFirst(e.case_name, SeqRange(e.ok_files), largs.max_tiles_per_case[1])

\* The part of C7 that holds: a limit N >= 0.
C7_LimitHoldsForNaturals ==
    (largs.max_tiles_per_case # <<>> /\ largs.max_tiles_per_case[1] >= 0) =>
        \A e \in LogEntries :
            /\ Len(e.tile_names) <= largs.max_tiles_per_case[1]
            /\ AmongFirst(e.case_name, SeqRange(e.ok_files), largs.max_tiles_per_case[1])
            /\ Len(e.ok_files) =
                  Min(largs.max_tiles_per_case[1],
                      Cardinality(HeTileFiles(e.case_name)))

\* The scene the exporter loads is the scene the loader saved.
Unedited == sceneFile = scene

\* The original mask of the tile file name for the class, as a set: the mask
\* file when it is readable, the zero mask of the tile's size when there is
\* no mask file (empty for a mask file that cannot be read).
OriginalMask(case_name, class_name, name) ==
    LET tile == orig.files[<<case_name, largs.he_folder, name>>]
        mpath == <<case_name, class_name,
                   case_name \o sUnderscore \o class_name \o sUnderscore
                       \o DropPrefix(name, Len(ImagePrefix(case_name, largs.he_folder)))>>
    IN  IF mpath \notin DOMAIN orig.files
        THEN {ZerosU8(tile.arr.h, tile.arr.w)}
        ELSE IF orig.files[mpath].ok THEN {orig.files[mpath].arr}
        ELSE {}

\* The array written for a tile whose HE file is unchanged under --root is
\* the tile's original mask.
WrittenIsOriginal(o) ==
    \A name \in StackedFileAt(o.case_name, o.slice_idx) :
        LET he_path == <<o.case_name, largs.he_folder, name>>
        IN  (he_path \in DOMAIN fs.files /\ fs.files[he_path] = orig.files[he_path]) =>
               \A m \in OriginalMask(o.case_name, o.class_name, name) :
                  /\ o.arr.h = m.h
                  /\ o.arr.w = m.w
                  /\ o.arr.px = m.px

\* C11: the export of an unedited scene, run with the --root, --he-folder and
\* --ext of the load, writes for every tile whose HE file is unchanged the
\* tile's original 0/255 mask (the zero mask if it had none), whatever the
\* size of the other tiles of the case.
C11_UneditedExportReproducesMasks ==
    (/\ Unedited
     /\ xargs.root_ok
     /\ xargs.he_folder = largs.he_folder
     /\ NormalizeExt(xargs.ext) = NormalizeExt(largs.ext))
    => \A k \in DOMAIN written : WrittenIsOriginal(written[k])

\* The part of C11 that holds: the export reads the tile sizes with SimpleITK.
C11_ReproducesMasksWithSimpleITK ==
    (/\ Unedited
     /\ xargs.sitk
     /\ xargs.root_ok
     /\ xargs.he_folder = largs.he_folder
     /\ NormalizeExt(xargs.ext) = NormalizeExt(largs.ext))
    => /\ \A k \in DOMAIN written : WrittenIsOriginal(written[k])
       /\ xpc = "done" =>
             \A e \in LogEntries : e.status = "stacked" =>
                \A cn \in DOMAIN e.tile_mask_arrays :
                   NpAny(stack_tile_arrays(e.tile_mask_arrays[cn])) =>
                      \A i \in DOMAIN e.ok_files :
                         \E k \in DOMAIN written :
                            /\ written[k].case_name = e.case_name
                            /\ written[k].class_name = cn
                            /\ written[k].slice_idx = i - 1

\* The loader's iterations that stacked a case, in order: iteration k added
\* the k-th volume and the k-th segmentation node of the scene.
StackedLog == SelectSeq(llog, LAMBDA e : e.status = "stacked")

\* C12: for every case the loader stacked, the volume is "<case>_HE" and the
\* segmentation "<case>_Segmentation"; the exporter derives from the
\* segmentation's name the case's directory name, finds the volume of that
\* case and reads the mapping of that case, also for directory names that
\* end in "_Segmentation" or "_HE"; every stacked case gets its iteration.
C12_NodeNamesAgree ==
    /\ Len(scene.vols) = Len(StackedLog) /\ Len(scene.segs) = Len(StackedLog)
    /\ \A k \in DOMAIN StackedLog :
          /\ <<StackedLog[k].case_name>> \in orig.dirs
          /\ scene.vols[k].name = StackedLog[k].case_name \o sHESuffix
          /\ scene.segs[k].name = StackedLog[k].case_name \o sSegmentationSuffix
          /\ scene.vols[k].desc = build_mapping(StackedLog[k].tile_names)
    /\ \A k \in DOMAIN xlog :
          /\ k \in DOMAIN StackedLog
          /\ xlog[k].seg_name = StackedLog[k].case_name \o sSegmentationSuffix
          /\ xlog[k].case_name = StackedLog[k].case_name
          /\ xlog[k].status # "no_volume"
          /\ xlog[k].vol_node = VolumeNode(StackedLog[k])
          /\ xlog[k].tile_names = parse_tile_mapping(build_mapping(StackedLog[k].tile_names))
          /\ \A j \in DOMAIN StackedLog :
                j # k => /\ xlog[k].vol_node # VolumeNode(StackedLog[j])
                         /\ xlog[k].case_name # StackedLog[j].case_name
    /\ xpc = "done" => Len(xlog) = Len(StackedLog)

\* C12 witness: the export finished two cases, one a scalar and one a vector
\* volume, one named "A_Segmentation" and the other with a name ending in
\* "_HE" or "_Segmentation".
C12_Witness ==
    /\ xpc = "done"
    /\ Len(xlog) = 2
    /\ \A k \in DOMAIN xlog : xlog[k].status = "exported"
    /\ xlog[1].vol_node.cls # xlog[2].vol_node.cls
    /\ \E k \in DOMAIN xlog : xlog[k].case_name = cA \o sSegmentationSuffix
    /\ \A k \in DOMAIN xlog : xlog[k].case_name # cA
    /\ Len(written) = 2

=============================================================================
